---- MODULE Spec2Model ----
(***************************************************************************)
(* The status/progress state machine of the video analysis front end: the  *)
(* App component (handleFileSelect, handleClearVideo, handleGenerateSummary *)
(* and the progress effect), the FileUploader in front of it, and the two   *)
(* collaborators the pipeline awaits (compressVideo, summarizeVideo).       *)
(*                                                                         *)
(* One action is one task of the browser's event loop: a click handler, a   *)
(* timer callback, a progress callback, or the continuation of the async    *)
(* handler after an await settles. React commits the state updates of one   *)
(* task together, so each action's primed variables are one commit.         *)
(* The effect of a commit runs as a task of its own, before the next        *)
(* commit; until it has run, the interval of the last status still ticks.   *)
(* statusMessage and the preview URL take part in no transition and are     *)
(* left out.                                                                *)
(*                                                                         *)
(* Spec        the App component, driven through its onFileSelect prop      *)
(*             with any VideoFile.                                          *)
(* ProgramSpec the App behind the FileUploader, whose                       *)
(*             validateAndProcessFile decides which files reach             *)
(*             onFileSelect. What the App does in it, it does in Spec.      *)
(* WholeSpec   ProgramSpec with the continuations of the compression, which *)
(*             it never enables.                                            *)
(*                                                                         *)
(* The result view below the App, SummaryResult, is modelled component by   *)
(* component, each with the inputs it can be given:                         *)
(*                                                                         *)
(* TimestampSpec parseTimestamp on timestamps given character by character. *)
(* ParserSpec    the parsedContent memo on documents given lexeme by        *)
(*               lexeme, rendered from the structure the prompt asks for.   *)
(* FrameSpec     one call of extractFrame: the events of its video element, *)
(*               its timer and its promise, against a clock.                *)
(* SegmentsSpec  the list of TimelineSegment instances: mounts, re-renders, *)
(*               unmounts, the frame effects and their closures.            *)
(* AudioSpec     the audio remix player: its buttons, the decodes its       *)
(*               playAudio awaits and the buffer sources it starts.         *)
(***************************************************************************)
EXTENDS Integers, Sequences, FiniteSets, TLC

VARIABLES
    video,          \* App: <<>> (null) or <<file>>, the selected VideoFile's file
    status,         \* App: ProcessingStatus
    summary,        \* App: the analysis document, or NULL
    error,          \* App: the error text, or NULL
    progress,       \* App: progress, in tenths of a percent
    interval,       \* the setInterval the progress effect has registered
    effectStatus,   \* the status the progress effect last ran for (deps [status])
    runs,           \* the invocations of handleGenerateSummary that await something
    uploaderError,  \* FileUploader: its own error text, or NULL
    selected,       \* FileUploader: the file last handed to validateAndProcessFile
    trail,          \* history: the statuses the latest run of this asset went through
    prev,           \* history: the trail of the run before it, for the same asset
    stamp,          \* one evaluation of parseTimestamp: its input and where it stands
    parse,          \* one evaluation of SummaryResult's parsedContent memo
    frame,          \* one call of extractFrame: the video element, timer and promise
    now,            \* the time since that call, in seconds
    slots,          \* the TimelineSegment instances, by position in the list
    calls,          \* the fetchFrame closures whose extractFrame is still awaited
    results,        \* the SummaryResult the slots belong to: its props, or <<>>
    audio           \* SummaryResult's audio remix player: state, refs, decodes, sources

appVars == <<video, status, summary, error, progress, interval, effectStatus,
             runs, uploaderError, selected, trail, prev>>

\* the components below the App: the result view's parser and its frames
viewVars == <<stamp, parse, frame, now, slots, calls, results, audio>>

vars == <<appVars, viewVars>>

-----------------------------------------------------------------------------
(* Values *)

NULL == "<null>"

IDLE == "IDLE"
COMPRESSING == "COMPRESSING"
PROCESSING_VIDEO == "PROCESSING_VIDEO"
ANALYZING == "ANALYZING"
COMPLETE == "COMPLETE"
ERROR == "ERROR"

ProcessingStatus == {IDLE, COMPRESSING, PROCESSING_VIDEO, ANALYZING, COMPLETE, ERROR}

\* 1024 * 1024, the divisor of file.size in both size checks
MiB == 1048576

\* FileUploader's ceiling and handleGenerateSummary's compression threshold
MAX_FILE_SIZE_MB == 19
CompressThresholdMB == 19

\* progress is a JavaScript number; it is kept here in tenths of a percent
Tenths == 10

EncodingCap == 35
EncodingStep == 2
AnalyzingCap == 95

\* the most invocations of handleGenerateSummary the model lets await at once
MaxRuns == 2

\* The messages the code can store
InvalidFormatMsg == "Invalid Format. Required: MP4, WebM, MOV."
SizeExceededMsg == "Size Exceeded. Max: 19MB."
CompressionFailedMsg == "Video compression failed. Please try a smaller file."
FatalMsg == "FATAL_ERROR: ANALYSIS_INTERRUPTED"
NoTextMsg == "No text response received from the model."
SummaryFailedMsg == "Failed to generate summary"

-----------------------------------------------------------------------------
(* Inputs *)

\* a media type "top/sub"; startsWith('video/') looks at the top part
MediaTypes == {[top |-> "video", sub |-> "quicktime"], [top |-> "image", sub |-> "png"]}
Mp4 == [top |-> "video", sub |-> "mp4"]

\* sizes in bytes: 10 MiB, exactly 19 MiB, one byte more, and 25 MB
FileSizes == {10 * MiB, 19 * MiB, 19 * MiB + 1, 25000000}

Files == [name : {"clip"}, size : FileSizes, type : MediaTypes]

\* the size of what compressVideo returns: nothing in the code bounds it
CompressedSizes == {4 * MiB, 20 * MiB}

\* ffmpeg's progress events, in thousandths (the code expects 0-1)
RawProgress == {-20, 0, 4, 500, 1000, 1337}

\* what compressVideo can throw
CompressFailures == {"Compression engine failed to initialize.", "exec aborted"}

\* what generateContent settles with: a response with a text, or a thrown error
\* with a message; either may be empty
Responses ==
    [kind : {"text"}, body : {"", "## Executive Summary"}]
        \cup [kind : {"error"}, body : {"", "Network error"}]
NoResponse == [kind |-> "none", body |-> ""]

\* what a run has handed to summarizeVideo: nothing yet, or the encoded payload
NoRequest == [mimeType |-> [top |-> "", sub |-> ""], data |-> ""]

-----------------------------------------------------------------------------
(* Pure helpers *)

Min(a, b) == IF a < b THEN a ELSE b
Max(a, b) == IF a > b THEN a ELSE b

\* mutant: the comparison written >= instead of >
SizeExceedsMB_Inclusive(size, mb) == size >= mb * MiB

\* file.size / (1024 * 1024) > mb: the division by a power of two is exact
SizeExceedsMB(size, mb) == size > mb * MiB

\* mutant: the media type is not looked at
IsVideoType_AnyMedia(type) == TRUE

\* file.type.startsWith('video/')
IsVideoType(type) == type.top = "video"

\* Math.round(x / 10) for x in thousandths: rounds half up
RoundHundredths(raw) == (raw + 5) \div 10

\* mutant: the handler without its Math.min(100, ...)
CompressPercent_Unclamped(raw) == RoundHundredths(raw)

\* the value compressVideo's progress handler passes to onProgress
CompressPercent(raw) == Min(100, RoundHundredths(raw))

\* the updater of the encoding interval
EncodingUpdater(p) ==
    IF p >= EncodingCap * Tenths THEN EncodingCap * Tenths
    ELSE p + EncodingStep * Tenths

\* the updater of the analysis interval: prev + max(0.1, (95 - prev) / 100),
\* the quotient cut to a tenth
AnalyzingUpdater(p) ==
    IF p >= AnalyzingCap * Tenths THEN AnalyzingCap * Tenths
    ELSE p + Max(1, (AnalyzingCap * Tenths - p) \div 100)

\* convertBlobToBase64(blob): the base64 text of the blob's bytes, which stands
\* for the blob read (its name and media type are not part of the bytes)
Base64Of(file) == IF file.name = "compressed.mp4" THEN "base64:compressed" ELSE "base64:original"

\* mutant: the message is stored as it comes, without the fallback
MessageOr_AsThrown(msg, fallback) == msg

\* err.message || fallback
MessageOr(msg, fallback) == IF msg = "" THEN fallback ELSE msg

\* mutant: the catch throws its fixed text and drops error.message, as
\* generateAudioReview's does
SummarizeOutcome_DropsMessage(r) ==
    IF r.kind = "text" /\ r.body # ""
    THEN [ok |-> TRUE, value |-> r.body]
    ELSE [ok |-> FALSE, value |-> SummaryFailedMsg]

\* what summarizeVideo makes of generateContent's outcome: the text, or an
\* Error whose message is never empty
SummarizeOutcome(r) ==
    IF r.kind = "text"
    THEN IF r.body # ""
         THEN [ok |-> TRUE, value |-> r.body]
         ELSE [ok |-> FALSE, value |-> MessageOr(NoTextMsg, SummaryFailedMsg)]
    ELSE [ok |-> FALSE, value |-> MessageOr(r.body, SummaryFailedMsg)]

\* the sequence s without its i-th element
RemoveAt(s, i) == [j \in 1..(Len(s) - 1) |-> IF j < i THEN s[j] ELSE s[j + 1]]

-----------------------------------------------------------------------------
(* What the App renders *)

\* mutant: the isLoading of the version that had no compression stage
IsLoading_WithoutCompressing ==
    status = PROCESSING_VIDEO \/ status = ANALYZING

IsLoading ==
    status = PROCESSING_VIDEO \/ status = ANALYZING \/ status = COMPRESSING

\* <FileUploader> is rendered when there is no video
UploaderShown == video = <<>>

\* mutant: the remove button is offered during a run as well
ClearEnabled_DuringRun == video # <<>>

\* VideoPreview's remove button
ClearEnabled == video # <<>> /\ ~IsLoading

\* mutant: the button's guard of the version that had no compression stage
StartEnabled_WithoutCompressing ==
    /\ video # <<>>
    /\ status # COMPLETE
    /\ status # ANALYZING
    /\ status # PROCESSING_VIDEO

\* the Initialize_Analysis button
StartEnabled ==
    /\ video # <<>>
    /\ status # COMPLETE
    /\ status # ANALYZING
    /\ status # PROCESSING_VIDEO
    /\ status # COMPRESSING

\* the Retry_Operation button of the error panel
RetryEnabled == status = ERROR

\* React runs the effect of a commit before it renders the next one
EffectPending == effectStatus # status

-----------------------------------------------------------------------------
AppInit ==
    /\ video = <<>>
    /\ status = IDLE
    /\ summary = NULL
    /\ error = NULL
    /\ progress = 0
    /\ interval = "none"
    /\ effectStatus = IDLE
    /\ runs = <<>>
    /\ uploaderError = NULL
    /\ selected = <<>>
    /\ trail = <<>>
    /\ prev = <<>>

-----------------------------------------------------------------------------
(* The App's handlers *)

\* handleFileSelect(videoFile), reached through the uploader's onFileSelect
FileSelected(f) ==
    /\ video' = <<f>>
    /\ summary' = NULL
    /\ error' = NULL
    /\ status' = IDLE
    /\ progress' = 0
    /\ trail' = <<>>
    /\ prev' = <<>>
    /\ UNCHANGED <<interval, effectStatus, runs>>

handleFileSelect ==
    /\ UploaderShown
    /\ ~EffectPending
    /\ \E f \in Files : FileSelected(f)
    /\ UNCHANGED <<uploaderError, selected>>
    /\ UNCHANGED viewVars

\* FileUploader.validateAndProcessFile(file)
validateAndProcessFile ==
    /\ UploaderShown
    /\ ~EffectPending
    /\ \E f \in Files :
        /\ selected' = <<f>>
        /\ IF ~IsVideoType(f.type)
           THEN /\ uploaderError' = InvalidFormatMsg
                /\ UNCHANGED <<video, status, summary, error, progress, interval,
                               effectStatus, runs, trail, prev>>
           ELSE IF SizeExceedsMB(f.size, MAX_FILE_SIZE_MB)
           THEN /\ uploaderError' = SizeExceededMsg
                /\ UNCHANGED <<video, status, summary, error, progress, interval,
                               effectStatus, runs, trail, prev>>
           ELSE /\ uploaderError' = NULL
                /\ FileSelected(f)
    /\ UNCHANGED viewVars

\* mutant: handleClearVideo without its setStatus(IDLE)
handleClearVideo_KeepsStatus ==
    /\ ClearEnabled
    /\ ~EffectPending
    /\ video' = <<>>
    /\ summary' = NULL
    /\ error' = NULL
    /\ progress' = 0
    /\ uploaderError' = NULL
    /\ selected' = <<>>
    /\ trail' = <<>>
    /\ prev' = <<>>
    /\ UNCHANGED <<status, interval, effectStatus, runs>>
    /\ UNCHANGED viewVars

\* mutant: handleClearVideo without its setSummary(null)
handleClearVideo_KeepsSummary ==
    /\ ClearEnabled
    /\ ~EffectPending
    /\ video' = <<>>
    /\ error' = NULL
    /\ status' = IDLE
    /\ progress' = 0
    /\ uploaderError' = NULL
    /\ selected' = <<>>
    /\ trail' = <<>>
    /\ prev' = <<>>
    /\ UNCHANGED <<summary, interval, effectStatus, runs>>
    /\ UNCHANGED viewVars

\* handleClearVideo, the onClear of VideoPreview; a fresh FileUploader mounts
handleClearVideo ==
    /\ ClearEnabled
    /\ ~EffectPending
    /\ video' = <<>>
    /\ summary' = NULL
    /\ error' = NULL
    /\ status' = IDLE
    /\ progress' = 0
    /\ uploaderError' = NULL
    /\ selected' = <<>>
    /\ trail' = <<>>
    /\ prev' = <<>>
    /\ UNCHANGED <<interval, effectStatus, runs>>
    /\ UNCHANGED viewVars

\* handleGenerateSummary up to its first await
GenerateSummaryStart ==
    IF video = <<>>
    THEN UNCHANGED vars
    ELSE /\ error' = NULL
         /\ progress' = 0
         /\ IF SizeExceedsMB(video[1].size, CompressThresholdMB)
            THEN /\ status' = COMPRESSING
                 /\ runs' = Append(runs, [pc |-> "compress", src |-> video[1],
                                          file |-> video[1], request |-> NoRequest,
                                          response |-> NoResponse])
            ELSE /\ status' = PROCESSING_VIDEO
                 /\ runs' = Append(runs, [pc |-> "encode", src |-> video[1],
                                          file |-> video[1], request |-> NoRequest,
                                          response |-> NoResponse])
         /\ trail' = <<status'>>
         /\ prev' = trail
         /\ UNCHANGED <<video, summary, interval, effectStatus, uploaderError, selected>>

\* a click on Initialize_Analysis
ClickStart ==
    /\ StartEnabled
    /\ ~EffectPending
    /\ Len(runs) < MaxRuns
    /\ GenerateSummaryStart
    /\ UNCHANGED viewVars

\* a click on Retry_Operation
ClickRetry ==
    /\ RetryEnabled
    /\ ~EffectPending
    /\ Len(runs) < MaxRuns
    /\ GenerateSummaryStart
    /\ UNCHANGED viewVars

\* the catch of handleGenerateSummary, ending run i
RunFails(i, msg) ==
    /\ status' = ERROR
    /\ error' = MessageOr(msg, FatalMsg)
    /\ progress' = 0
    /\ runs' = RemoveAt(runs, i)
    /\ trail' = Append(trail, ERROR)
    /\ UNCHANGED <<video, summary, interval, effectStatus, uploaderError, selected, prev>>

\* mutant: the compressed derivative is also stored as the selected asset
EnterEncoding_ReplacesAsset(i, file) ==
    /\ status' = PROCESSING_VIDEO
    /\ progress' = 0
    /\ video' = <<file>>
    /\ runs' = [runs EXCEPT ![i].pc = "encode", ![i].file = file]
    /\ trail' = Append(trail, PROCESSING_VIDEO)
    /\ UNCHANGED <<summary, error, interval, effectStatus, uploaderError,
                   selected, prev>>

\* the statements after the compression block, up to the await of the encoding
EnterEncoding(i, file) ==
    /\ status' = PROCESSING_VIDEO
    /\ progress' = 0
    /\ runs' = [runs EXCEPT ![i].pc = "encode", ![i].file = file]
    /\ trail' = Append(trail, PROCESSING_VIDEO)
    /\ UNCHANGED <<video, summary, error, interval, effectStatus, uploaderError,
                   selected, prev>>

\* compressVideo's handler of ffmpeg's progress event, calling onProgress
CompressProgress ==
    /\ \E i \in 1..Len(runs), raw \in RawProgress :
        /\ runs[i].pc = "compress"
        /\ IF raw > 0
           THEN progress' = CompressPercent(raw) * Tenths
           ELSE UNCHANGED progress
    /\ UNCHANGED <<video, status, summary, error, interval, effectStatus, runs,
                   uploaderError, selected, trail, prev>>
    /\ UNCHANGED viewVars

\* compressVideo resolves with a blob; the run wraps it in compressed.mp4
CompressResolves ==
    /\ ~EffectPending
    /\ \E i \in 1..Len(runs), size \in CompressedSizes :
        /\ runs[i].pc = "compress"
        /\ EnterEncoding(i, [name |-> "compressed.mp4", size |-> size, type |-> Mp4])
    /\ UNCHANGED viewVars

\* mutant: the inner catch rethrows compError
CompressRejects_Rethrows ==
    /\ ~EffectPending
    /\ \E i \in 1..Len(runs), cause \in CompressFailures :
        /\ runs[i].pc = "compress"
        /\ RunFails(i, cause)
    /\ UNCHANGED viewVars

\* compressVideo throws; the inner catch throws the domain error instead
CompressRejects ==
    /\ ~EffectPending
    /\ \E i \in 1..Len(runs), cause \in CompressFailures :
        /\ runs[i].pc = "compress"
        /\ RunFails(i, CompressionFailedMsg)
    /\ UNCHANGED viewVars

\* mutant: the encoded file goes to the service without the status being set
EncodeResolves_KeepsStatus ==
    /\ ~EffectPending
    /\ \E i \in 1..Len(runs) :
        /\ runs[i].pc = "encode"
        /\ runs' = [runs EXCEPT ![i].pc = "analyze",
                                 ![i].request = [mimeType |-> runs[i].file.type,
                                                 data |-> Base64Of(runs[i].file)]]
    /\ UNCHANGED <<video, status, summary, error, progress, interval, effectStatus,
                   uploaderError, selected, trail, prev>>
    /\ UNCHANGED viewVars

\* convertBlobToBase64 resolves: the run enters the analysis and calls the service
EncodeResolves ==
    /\ ~EffectPending
    /\ \E i \in 1..Len(runs) :
        /\ runs[i].pc = "encode"
        /\ status' = ANALYZING
        /\ runs' = [runs EXCEPT ![i].pc = "analyze",
                                 ![i].request = [mimeType |-> runs[i].file.type,
                                                 data |-> Base64Of(runs[i].file)]]
        /\ trail' = Append(trail, ANALYZING)
    /\ UNCHANGED <<video, summary, error, progress, interval, effectStatus,
                   uploaderError, selected, prev>>
    /\ UNCHANGED viewVars

\* convertBlobToBase64 rejects with the reader's event, which has no message
EncodeRejects ==
    /\ ~EffectPending
    /\ \E i \in 1..Len(runs) :
        /\ runs[i].pc = "encode"
        /\ RunFails(i, "")
    /\ UNCHANGED viewVars

\* ai.models.generateContent settles: the outcome waits for the continuation
ServiceSettles ==
    /\ \E i \in 1..Len(runs), r \in Responses :
        /\ runs[i].pc = "analyze"
        /\ runs[i].response = NoResponse
        /\ runs' = [runs EXCEPT ![i].response = r]
    /\ UNCHANGED <<video, status, summary, error, progress, interval, effectStatus,
                   uploaderError, selected, trail, prev>>
    /\ UNCHANGED viewVars

\* summarizeVideo returns or throws, and handleGenerateSummary goes on
SummarizeReturns ==
    /\ ~EffectPending
    /\ \E i \in 1..Len(runs) :
        /\ runs[i].pc = "analyze"
        /\ runs[i].response # NoResponse
        /\ LET out == SummarizeOutcome(runs[i].response) IN
           IF out.ok
           THEN /\ summary' = out.value
                /\ status' = COMPLETE
                /\ runs' = RemoveAt(runs, i)
                /\ trail' = Append(trail, COMPLETE)
                /\ UNCHANGED <<video, error, progress, interval, effectStatus,
                               uploaderError, selected, prev>>
           ELSE RunFails(i, out.value)
    /\ UNCHANGED viewVars

-----------------------------------------------------------------------------
(* The progress effect and its timers *)

\* useEffect(..., [status]): the cleanup of the last run, then the body
ProgressEffect ==
    /\ EffectPending
    /\ effectStatus' = status
    /\ interval' = IF status = PROCESSING_VIDEO THEN "encoding"
                   ELSE IF status = ANALYZING THEN "analyzing"
                   ELSE "none"
    /\ progress' = IF status = COMPLETE THEN 100 * Tenths ELSE progress
    /\ UNCHANGED <<video, status, summary, error, runs, uploaderError, selected,
                   trail, prev>>
    /\ UNCHANGED viewVars

\* a tick of the encoding interval, for as long as it is registered
EncodingTick ==
    /\ interval = "encoding"
    /\ progress' = EncodingUpdater(progress)
    /\ UNCHANGED <<video, status, summary, error, interval, effectStatus, runs,
                   uploaderError, selected, trail, prev>>
    /\ UNCHANGED viewVars

\* a tick of the analysis interval
AnalyzingTick ==
    /\ interval = "analyzing"
    /\ progress' = AnalyzingUpdater(progress)
    /\ UNCHANGED <<video, status, summary, error, interval, effectStatus, runs,
                   uploaderError, selected, trail, prev>>
    /\ UNCHANGED viewVars

-----------------------------------------------------------------------------
(* SummaryResult: parseTimestamp *)

\* A string is the sequence of its characters.
Digits == <<"0", "1", "2", "3", "4", "5", "6", "7", "8", "9">>
IsDigitIn(c, radix) == \E d \in 1..radix : Digits[d] = c
DigitValue(c) == (CHOOSE d \in 1..10 : Digits[d] = c) - 1
StrWhiteSpace == {" ", "\n"}

\* a JavaScript number: an integer, or NaN
Num(n) == [nan |-> FALSE, n |-> n]
NaN == [nan |-> TRUE, n |-> 0]
JsAdd(a, b) == IF a.nan \/ b.nan THEN NaN ELSE Num(a.n + b.n)
JsMul(a, b) == IF a.nan \/ b.nan THEN NaN ELSE Num(a.n * b.n)

RECURSIVE SkipWhiteSpace(_)
SkipWhiteSpace(s) ==
    IF s # <<>> /\ Head(s) \in StrWhiteSpace THEN SkipWhiteSpace(Tail(s)) ELSE s

RECURSIVE DigitPrefix(_, _)
DigitPrefix(s, radix) ==
    IF s # <<>> /\ IsDigitIn(Head(s), radix)
    THEN <<Head(s)>> \o DigitPrefix(Tail(s), radix)
    ELSE <<>>

RECURSIVE DigitsValue(_, _, _)
DigitsValue(ds, radix, acc) ==
    IF ds = <<>> THEN acc
    ELSE DigitsValue(Tail(ds), radix, acc * radix + DigitValue(Head(ds)))

\* parseInt(string, radix): leading white space, a sign, then the longest
\* prefix of digits; NaN when that prefix is empty; what follows is ignored
ParseIntIn(s, radix) ==
    LET t == SkipWhiteSpace(s)
        negative == t # <<>> /\ Head(t) = "-"
        signed == t # <<>> /\ Head(t) \in {"-", "+"}
        ds == DigitPrefix(IF signed THEN Tail(t) ELSE t, radix)
        magnitude == DigitsValue(ds, radix, 0)
    IN  IF ds = <<>> THEN NaN
        ELSE Num(IF negative THEN 0 - magnitude ELSE magnitude)

\* parseInt(part, 10)
ParseInt(part) == ParseIntIn(part, 10)

\* mutant: the brackets are left in
RemoveBrackets_Kept(s) == s

\* timestamp.replace(/[\[\]]/g, '')
RemoveBrackets(s) == SelectSeq(s, LAMBDA c : c \notin {"[", "]"})

\* String.prototype.split(separator), for a one-character separator
RECURSIVE Split(_, _)
Split(s, sep) ==
    IF \A i \in 1..Len(s) : s[i] # sep THEN <<s>>
    ELSE LET i == CHOOSE k \in 1..Len(s) : s[k] = sep /\ \A j \in 1..(k - 1) : s[j] # sep
         IN  <<SubSeq(s, 1, i - 1)>> \o Split(SubSeq(s, i + 1, Len(s)), sep)

\* the two return statements of parseTimestamp, and the final return 0
Seconds(parts) ==
    IF Len(parts) = 2
    THEN JsAdd(JsMul(parts[1], Num(60)), parts[2])
    ELSE IF Len(parts) = 3
    THEN JsAdd(JsAdd(JsMul(parts[1], Num(3600)), JsMul(parts[2], Num(60))), parts[3])
    ELSE Num(0)

\* The timestamps parseTimestamp is called with: up to MaxStampParts fields
\* joined by colons, bracketed or not.
MaxStampParts == 4

PartTexts ==
    { <<>>, <<"0", "1">>, <<"0", "2">>, <<"0", "3">>, <<"3", "0">>, <<"7">>,
      <<"a", "b">>, <<"5", "x">>, <<"-", "1">> }

StampShapes ==
    [ fields : UNION { [1..n -> PartTexts] : n \in 1..MaxStampParts },
      bracketed : BOOLEAN ]

RECURSIVE Join(_, _)
Join(fields, sep) ==
    IF Len(fields) = 0 THEN <<>>
    ELSE IF Len(fields) = 1 THEN fields[1]
    ELSE fields[1] \o <<sep>> \o Join(Tail(fields), sep)

StampText(shape) ==
    IF shape.bracketed
    THEN <<"[">> \o Join(shape.fields, ":") \o <<"]">>
    ELSE Join(shape.fields, ":")

StampIdle == [pc |-> "idle"]

StampCall(shape) ==
    [pc |-> "called", shape |-> shape, input |-> StampText(shape),
     clean |-> <<>>, parts |-> <<>>, out |-> NaN]

StampCalls == { StampCall(shape) : shape \in StampShapes }

\* if (!timestamp) return 0; const clean = timestamp.replace(...)
StripBrackets ==
    /\ stamp.pc = "called"
    /\ stamp' = IF stamp.input = <<>>
                THEN [stamp EXCEPT !.pc = "done", !.out = Num(0)]
                ELSE [stamp EXCEPT !.pc = "stripped", !.clean = RemoveBrackets(stamp.input)]
    /\ UNCHANGED <<appVars, audio, parse, frame, now, slots, calls, results>>

\* const parts = clean.split(':').map(part => parseInt(part, 10))
SplitParts ==
    /\ stamp.pc = "stripped"
    /\ LET texts == Split(stamp.clean, ":") IN
       stamp' = [stamp EXCEPT !.pc = "split",
                              !.parts = [i \in 1..Len(texts) |-> ParseInt(texts[i])]]
    /\ UNCHANGED <<appVars, audio, parse, frame, now, slots, calls, results>>

\* the returns on parts.length
ReturnSeconds ==
    /\ stamp.pc = "split"
    /\ stamp' = [stamp EXCEPT !.pc = "done", !.out = Seconds(stamp.parts)]
    /\ UNCHANGED <<appVars, audio, parse, frame, now, slots, calls, results>>

-----------------------------------------------------------------------------
(* SummaryResult: the parsedContent memo *)

\* The analysis document is the sequence of its lexemes: the headers and
\* labels the patterns look for, the punctuation they test, and words.
ExecHeader == "## (clapper) Executive Summary"
TimelineHeader == "## (stopwatch) Detailed Chronological Analysis"
CriticalHeader == "## (key) Critical Analysis & Takeaways"
KeyHeader == "## (key) Key Takeaways"
SegmentMark == "### (diamond)"
SpeakerLabel == "**(speaking) Speaker**:"
SentimentLabel == "**(masks) Sentiment**:"
DialogueLabel == "**(balloon) Dialogue**:"
VisualLabel == "**(eye) Visual Context**:"
NL == "\n"
SP == " "
LB == "["
RB == "]"
Dash == "-"
Bullet == "*"
Bold == "**"
Colon == ":"

\* the lexemes a \s matches, and the ones that begin as the patterns' look-aheads do
WhiteSpace == {NL, SP}
StartsClock == {TimelineHeader}
StartsKey == {CriticalHeader, KeyHeader}
StartsStar == {Bullet, Bold, SpeakerLabel, SentimentLabel, DialogueLabel, VisualLabel}
StartsHashes == {SegmentMark}

\* the index of the first lexeme of s in set, from index from on, or 0
FirstIn(s, set, from) ==
    IF \E i \in from..Len(s) : s[i] \in set
    THEN CHOOSE i \in from..Len(s) : s[i] \in set /\ \A j \in from..(i - 1) : s[j] \notin set
    ELSE 0

\* the index of the first lexeme that is not white space, from index from on, or 0
FirstInk(s, from) ==
    IF \E i \in from..Len(s) : s[i] \notin WhiteSpace
    THEN CHOOSE i \in from..Len(s) : s[i] \notin WhiteSpace
                                     /\ \A j \in from..(i - 1) : s[j] \in WhiteSpace
    ELSE 0

\* String.prototype.trim
Trim(s) ==
    LET a == FirstInk(s, 1) IN
    IF a = 0 THEN <<>>
    ELSE LET b == CHOOSE i \in a..Len(s) : s[i] \notin WhiteSpace
                                           /\ \A j \in (i + 1)..Len(s) : s[j] \in WhiteSpace
         IN  SubSeq(s, a, b)

\* header([\s\S]*?)(?=stop|$): the text after the first header, up to the
\* first lexeme of stops or to the end; matched is whether the header is there
Section(doc, headers, stops) ==
    LET h == FirstIn(doc, headers, 1) IN
    IF h = 0 THEN [matched |-> FALSE, text |-> <<>>]
    ELSE LET e == FirstIn(doc, stops, h + 1) IN
         [matched |-> TRUE,
          text |-> SubSeq(doc, h + 1, IF e = 0 THEN Len(doc) ELSE e - 1)]

\* executiveMatch ? executiveMatch[1].trim() : ''
ExecutiveOf(doc) == Trim(Section(doc, {ExecHeader}, StartsClock).text)

\* text.split(/(?=### (diamond))/): a cut before every mark but one at the start
RECURSIVE SplitBefore(_, _)
SplitBefore(text, mark) ==
    LET i == FirstIn(text, {mark}, 2) IN
    IF i = 0 THEN <<text>>
    ELSE <<SubSeq(text, 1, i - 1)>> \o SplitBefore(SubSeq(text, i, Len(text)), mark)

StartsWithMark(piece) == Trim(piece) # <<>> /\ Head(Trim(piece)) = SegmentMark

\* mutant: the pieces are not filtered
RawSegments_Unfiltered(text) == SplitBefore(text, SegmentMark)

\* timelineText.split(...).filter(s => s.trim().startsWith('### (diamond)'))
RawSegments(text) == SelectSeq(SplitBefore(text, SegmentMark), StartsWithMark)

\* header.match(/\[(.*?)\]/): between the first '[' and the next ']'
TimeMatch(header) ==
    LET i == FirstIn(header, {LB}, 1)
        j == IF i = 0 THEN 0 ELSE FirstIn(header, {RB}, i + 1)
    IN  IF j = 0 THEN [matched |-> FALSE, text |-> <<>>]
        ELSE [matched |-> TRUE, text |-> SubSeq(header, i + 1, j - 1)]

\* header.match(/\]\s*-\s*(.*)/): after the first ']' that a dash follows
TitleMatch(header) ==
    LET DashAfter(i) == LET k == FirstInk(header, i + 1) IN
                        IF k # 0 /\ header[k] = Dash THEN k ELSE 0
        found == { i \in 1..Len(header) : header[i] = RB /\ DashAfter(i) # 0 }
    IN  IF found = {} THEN [matched |-> FALSE, text |-> <<>>]
        ELSE LET i == CHOOSE x \in found : \A y \in found : x <= y IN
             [matched |-> TRUE, text |-> SubSeq(header, DashAfter(i) + 1, Len(header))]

\* mutant: the look-ahead is only the end of the block
FieldEnd_EndOnly(seg, from) == Len(seg) + 1

\* (?=\n\s*\*|\n###|$): the first index from from on at which the look-ahead
\* holds, the end of the block being Len(seg) + 1
FieldEnd(seg, from) ==
    LET Stops(p) ==
            /\ seg[p] = NL
            /\ \/ LET k == FirstInk(seg, p + 1) IN k # 0 /\ seg[k] \in StartsStar
               \/ p + 1 <= Len(seg) /\ seg[p + 1] \in StartsHashes
        found == { p \in from..Len(seg) : Stops(p) }
    IN  IF found = {} THEN Len(seg) + 1
        ELSE CHOOSE x \in found : \A y \in found : x <= y

\* seg.match(/label([\s\S]*?)(?=\n\s*\*|\n###|$)/)
FieldMatch(seg, label) ==
    LET i == FirstIn(seg, {label}, 1) IN
    IF i = 0 THEN [matched |-> FALSE, text |-> <<>>]
    ELSE [matched |-> TRUE, text |-> SubSeq(seg, i + 1, FieldEnd(seg, i + 1) - 1)]

\* match ? match[1].trim() : fallback
TrimmedOr(match, fallback) == IF match.matched THEN Trim(match.text) ELSE fallback

DefaultTimestamp == <<"00:00">>
DefaultTitle == <<"Event Segment">>
DefaultSpeaker == <<"Unknown Speaker">>
DefaultSentiment == <<"Neutral">>
DefaultDialogue == <<"No dialogue detected.">>
DefaultVisualContext == <<>>

\* the body of rawSegments.map(seg => ...)
SegmentOf(seg) ==
    LET lines == Split(Trim(seg), NL)
        header == lines[1]
        timeMatch == TimeMatch(header)
    IN  [ raw |-> seg,
          timestamp |-> IF timeMatch.matched THEN timeMatch.text ELSE DefaultTimestamp,
          title |-> TrimmedOr(TitleMatch(header), DefaultTitle),
          speaker |-> TrimmedOr(FieldMatch(seg, SpeakerLabel), DefaultSpeaker),
          sentiment |-> TrimmedOr(FieldMatch(seg, SentimentLabel), DefaultSentiment),
          dialogue |-> TrimmedOr(FieldMatch(seg, DialogueLabel), DefaultDialogue),
          visualContext |-> TrimmedOr(FieldMatch(seg, VisualLabel), DefaultVisualContext) ]

\* timelineSegments: empty unless the section's header is found
TimelineSegmentsOf(doc) ==
    LET timelineMatch == Section(doc, {TimelineHeader}, StartsKey) IN
    IF ~timelineMatch.matched THEN <<>>
    ELSE LET rawSegments == RawSegments(timelineMatch.text) IN
         [i \in 1..Len(rawSegments) |-> SegmentOf(rawSegments[i])]

\* summary.match(/## (key) Critical Analysis & Takeaways([\s\S]*)/)
\*   || summary.match(/## (key) Key Takeaways([\s\S]*)/), then match[1].trim()
RawTakeawaysOf(doc) ==
    LET critical == Section(doc, {CriticalHeader}, {})
        key == Section(doc, {KeyHeader}, {})
    IN  IF critical.matched THEN Trim(critical.text)
        ELSE IF key.matched THEN Trim(key.text)
        ELSE <<>>

\* line.trim().startsWith('*') || line.trim().startsWith('-')
IsItem(line) == Trim(line) # <<>> /\ Head(Trim(line)) \in StartsStar \cup {Dash}

\* item.replace(/^[*-\s]+/, '').trim(): the leading lexemes made of '*', '-'
\* and white space only are removed
RECURSIVE StripItemLead(_)
StripItemLead(item) ==
    IF item # <<>> /\ Head(item) \in {Bullet, Bold, Dash} \cup WhiteSpace
    THEN StripItemLead(Tail(item))
    ELSE item

\* clean.match(/\*\*(.*?)\*\*:?\s*(.*)/)
InsightOf(item) ==
    LET clean == Trim(StripItemLead(item))
        i == FirstIn(clean, {Bold}, 1)
        j == IF i = 0 THEN 0 ELSE FirstIn(clean, {Bold}, i + 1)
    IN  IF j = 0 THEN [title |-> <<"Observation">>, content |-> clean]
        ELSE LET k == IF j + 1 <= Len(clean) /\ clean[j + 1] = Colon THEN j + 1 ELSE j
                 c == FirstInk(clean, k + 1)
             IN  [ title |-> SubSeq(clean, i + 1, j - 1),
                   content |-> IF c = 0 THEN <<>> ELSE SubSeq(clean, c, Len(clean)) ]

InsightsOf(rawTakeaways) ==
    LET items == SelectSeq(Split(rawTakeaways, NL), IsItem) IN
    [i \in 1..Len(items) |-> InsightOf(items[i])]

\* mutant: the structure is given up when either part is missing
IsUnparsed_Either(executive, timelineSegments) ==
    executive = <<>> \/ Len(timelineSegments) = 0

\* !executive && timelineSegments.length === 0
IsUnparsed(executive, timelineSegments) ==
    executive = <<>> /\ Len(timelineSegments) = 0

\* return null
Unparsed == [structured |-> FALSE]

\* The documents the memo is evaluated on: an executive section that is
\* absent, blank or written; a chronological section with or without its
\* header and with or without text before its first block, of up to
\* MaxSegments blocks; a takeaways section under either header, or none.
MaxSegments == 2

FieldLabels == {SpeakerLabel, SentimentLabel, DialogueLabel, VisualLabel}

BlockShapes ==
    [ stamp : {"none", "00:05", "01:30"},
      fields : { FieldLabels, FieldLabels \ {SentimentLabel}, {SentimentLabel}, {} } ]

DocShapes ==
    [ exec : {"absent", "blank", "written"},
      timed : BOOLEAN,
      lead : BOOLEAN,
      blocks : UNION { [1..n -> BlockShapes] : n \in 0..MaxSegments },
      takeaways : {"absent", "critical", "key"} ]

TitleOf(stampText) == IF stampText = "00:05" THEN <<"Opening">> ELSE <<"Closing", SP, "remarks">>

Authored(label) ==
    IF label = SpeakerLabel THEN <<"Alice">>
    ELSE IF label = SentimentLabel THEN <<"Negative", SP, Dash, SP, "heated">>
    ELSE IF label = DialogueLabel THEN <<"We", SP, "begin.", NL, SP, SP, "Then", SP, "we", SP, "stop.">>
    ELSE <<"A", SP, "whiteboard">>

FieldLine(block, label) ==
    IF label \in block.fields
    THEN <<Bullet, SP, SP, SP, label, SP>> \o Authored(label) \o <<NL>>
    ELSE <<>>

BlockText(block) ==
    <<SegmentMark, SP>>
    \o (IF block.stamp = "none" THEN <<"Untimed">>
        ELSE <<LB, block.stamp, RB, SP, Dash, SP>> \o TitleOf(block.stamp))
    \o <<NL>>
    \o FieldLine(block, SpeakerLabel) \o FieldLine(block, SentimentLabel)
    \o FieldLine(block, DialogueLabel) \o FieldLine(block, VisualLabel)
    \o <<NL>>

RECURSIVE Concat(_)
Concat(texts) == IF texts = <<>> THEN <<>> ELSE Head(texts) \o Concat(Tail(texts))

DocText(shape) ==
    (IF shape.exec = "absent" THEN <<>>
     ELSE IF shape.exec = "blank" THEN <<ExecHeader, NL, NL>>
     ELSE <<ExecHeader, NL, "An", SP, "overview.", NL, NL>>)
    \o (IF shape.timed THEN <<TimelineHeader, NL, NL>> ELSE <<>>)
    \o (IF shape.lead THEN <<"Segments", SP, "follow.", NL, NL>> ELSE <<>>)
    \o Concat([i \in 1..Len(shape.blocks) |-> BlockText(shape.blocks[i])])
    \o (IF shape.takeaways = "absent" THEN <<>>
        ELSE <<IF shape.takeaways = "critical" THEN CriticalHeader ELSE KeyHeader, NL,
               Bullet, SP, SP, SP, Bold, "Pacing", Bold, Colon, SP, "uneven", NL,
               Dash, SP, "No", SP, "captions", NL>>)

ParseIdle == [pc |-> "idle"]

ParseCall(shape) ==
    [pc |-> "called", shape |-> shape, summary |-> DocText(shape),
     executive |-> <<>>, timelineSegments |-> <<>>, rawTakeaways |-> <<>>,
     insights |-> <<>>, out |-> Unparsed]

ParseCalls == { ParseCall(shape) : shape \in DocShapes }

\* 1. Extract Executive Summary
ExtractExecutive ==
    /\ parse.pc = "called"
    /\ parse' = [parse EXCEPT !.pc = "executive", !.executive = ExecutiveOf(parse.summary)]
    /\ UNCHANGED <<appVars, audio, stamp, frame, now, slots, calls, results>>

\* 2. Extract Timeline
ExtractTimeline ==
    /\ parse.pc = "executive"
    /\ parse' = [parse EXCEPT !.pc = "timeline",
                              !.timelineSegments = TimelineSegmentsOf(parse.summary)]
    /\ UNCHANGED <<appVars, audio, stamp, frame, now, slots, calls, results>>

\* 3. Extract Takeaways
ExtractTakeaways ==
    /\ parse.pc = "timeline"
    /\ LET rawTakeaways == RawTakeawaysOf(parse.summary) IN
       parse' = [parse EXCEPT !.pc = "takeaways",
                              !.rawTakeaways = rawTakeaways,
                              !.insights = InsightsOf(rawTakeaways)]
    /\ UNCHANGED <<appVars, audio, stamp, frame, now, slots, calls, results>>

\* the sentinel, or the structure
ReturnParsed ==
    /\ parse.pc = "takeaways"
    /\ parse' = [parse EXCEPT
                    !.pc = "done",
                    !.out = IF IsUnparsed(parse.executive, parse.timelineSegments)
                            THEN Unparsed
                            ELSE [ structured |-> TRUE,
                                   executive |-> parse.executive,
                                   timelineSegments |-> parse.timelineSegments,
                                   insights |-> parse.insights,
                                   rawTakeaways |-> parse.rawTakeaways ]]
    /\ UNCHANGED <<appVars, audio, stamp, frame, now, slots, calls, results>>

-----------------------------------------------------------------------------
(* SummaryResult: extractFrame *)

\* One call of extractFrame(videoUrl, time). Times on the video are in tenths
\* of a second; now counts the seconds since the call. The events of the
\* video element come in the order the browser gives them: loadedmetadata
\* before seeked, error at any point while the element has a source.
FrameTimeout == 4

\* how long the call is watched for
MaxClock == 6

\* the seconds parseTimestamp can hand over, in tenths
FrameTimes == {Num(0), Num(900), Num(-300), NaN}

\* video.duration, in tenths
Durations == {1, 50, 6000}

\* resolve(value): the first call settles the promise, the later ones do nothing
Resolved(promise, value) == IF promise = "pending" THEN value ELSE promise

\* clearTimeout(timeout)
Cleared(timer) == IF timer = "armed" THEN "cleared" ELSE timer

FrameIdle == [pc |-> "idle"]

FrameCall(time) ==
    [pc |-> "called", time |-> time, media |-> "loading", currentTime |-> 0,
     timer |-> "armed", promise |-> "pending", element |-> "live"]

FrameCalls == { FrameCall(time) : time \in FrameTimes }

\* video.onloadedmetadata: the seek to Math.min(time, video.duration - 0.1);
\* the assignment of NaN to currentTime throws and no seek starts; a negative
\* position is raised to the start of the media
LoadedMetadata ==
    /\ frame.pc = "called"
    /\ frame.media = "loading"
    /\ frame.element = "live"
    /\ \E duration \in Durations :
        frame' = IF frame.time.nan
                 THEN [frame EXCEPT !.media = "unseekable"]
                 ELSE [frame EXCEPT !.media = "seeking",
                                    !.currentTime = Max(0, Min(frame.time.n, duration - 1))]
    /\ UNCHANGED <<appVars, audio, stamp, parse, now, slots, calls, results>>

\* onSeeked, with what the canvas does: no 2d context, toDataURL throws, or an image
SeekedOutcomes == {"image", "noContext", "encodingThrows"}

\* video.onseeked = onSeeked
Seeked ==
    /\ frame.pc = "called"
    /\ frame.media = "seeking"
    /\ frame.element = "live"
    /\ \E outcome \in SeekedOutcomes :
        frame' = IF outcome = "image"
                 THEN [frame EXCEPT !.media = "seeked",
                                    !.timer = Cleared(frame.timer),
                                    !.promise = Resolved(frame.promise, "image"),
                                    !.element = "released"]
                 ELSE [frame EXCEPT !.media = "seeked",
                                    !.promise = Resolved(frame.promise, "null"),
                                    !.element = "released"]
    /\ UNCHANGED <<appVars, audio, stamp, parse, now, slots, calls, results>>

\* mutant: onerror clears the timer and does not resolve
VideoError_OnlyClears ==
    /\ frame.pc = "called"
    /\ frame.media \in {"loading", "seeking", "unseekable", "seeked"}
    /\ frame' = [frame EXCEPT !.media = "failed", !.timer = Cleared(frame.timer)]
    /\ UNCHANGED <<appVars, audio, stamp, parse, now, slots, calls, results>>

\* video.onerror: the source fails to load or to seek, or the emptied source
\* of the released element is reported
VideoError ==
    /\ frame.pc = "called"
    /\ frame.media \in {"loading", "seeking", "unseekable", "seeked"}
    /\ frame' = [frame EXCEPT !.media = "failed",
                              !.timer = Cleared(frame.timer),
                              !.promise = Resolved(frame.promise, "null")]
    /\ UNCHANGED <<appVars, audio, stamp, parse, now, slots, calls, results>>

\* the safety timeout's callback, FrameTimeout seconds after the call
FrameTimeoutFires ==
    /\ frame.pc = "called"
    /\ frame.timer = "armed"
    /\ now = FrameTimeout
    /\ frame' = [frame EXCEPT !.timer = "fired",
                              !.promise = Resolved(frame.promise, "null")]
    /\ UNCHANGED <<appVars, audio, stamp, parse, now, slots, calls, results>>

\* a second passes; a timer that is due runs first
FrameTick ==
    /\ frame.pc = "called"
    /\ now < MaxClock
    /\ ~(frame.timer = "armed" /\ now >= FrameTimeout)
    /\ now' = now + 1
    /\ UNCHANGED <<appVars, audio, stamp, parse, frame, slots, calls, results>>

-----------------------------------------------------------------------------
(* SummaryResult: the TimelineSegment list and its frame effects *)

\* The list renders one TimelineSegment per parsed segment, keyed by its
\* index, so an instance lives from the mount of the SummaryResult to its
\* unmount and sees its props change when the summary is parsed anew. A
\* commit and the passive effects it leaves behind are separate tasks: React
\* runs the pending effects, cleanups first, before it renders again, but a
\* promise that settles in between finds the old closure's isMounted still true.
MaxSlots == 2
MaxMounts == 2
MaxCalls == 2

\* segment.timestamp as parsed ('' from an empty pair of brackets)
SlotStamps == {"", "00:05", "01:30"}

\* videoUrl: the preview URL of the asset the summary was made from, a new
\* one for every asset
UrlOf(inst) == <<"blob", inst>>
StampLists == UNION { [1..n -> SlotStamps] : n \in 1..MaxSlots }

\* [segment.timestamp, videoUrl], the dependencies of the effect
KeyOf(slot) == <<slot.timestamp, slot.videoUrl>>

\* the effect of slot i has not run for the props of the last commit
EffectDue(i) == slots[i].deps # KeyOf(slots[i])

\* closures of instances that are unmounted and whose cleanup has not run
Orphans == { c \in calls : c.isMounted /\ (~results.mounted \/ c.inst # results.inst) }

\* no SummaryResult has been rendered yet
NoResults == [mounted |-> FALSE, inst |-> 0, serial |-> 0, videoUrl |-> <<>>, stamps |-> <<>>]

\* the SummaryResult is rendered for a summary: parsedContent.timelineSegments.map
MountResults ==
    /\ ~results.mounted
    /\ Orphans = {}
    /\ results.inst < MaxMounts
    /\ \E stamps \in StampLists :
        /\ results' = [results EXCEPT !.mounted = TRUE, !.inst = @ + 1,
                                      !.videoUrl = UrlOf(results.inst + 1),
                                      !.stamps = stamps]
        /\ slots' = [i \in 1..Len(stamps) |->
                        [inst |-> results.inst + 1, timestamp |-> stamps[i],
                         videoUrl |-> UrlOf(results.inst + 1), imageUrl |-> <<>>, loading |-> FALSE,
                         deps |-> <<>>]]
    /\ UNCHANGED <<appVars, audio, stamp, parse, frame, now, calls>>

\* the summary changes under the mounted list and is parsed anew: every
\* instance keeps its state and gets the segment at its index
RenderAgain ==
    /\ results.mounted
    /\ \A i \in 1..Len(slots) : ~EffectDue(i)
    /\ \E stamps \in StampLists :
        /\ Len(stamps) = Len(results.stamps)
        /\ stamps # results.stamps
        /\ results' = [results EXCEPT !.stamps = stamps]
        /\ slots' = [i \in 1..Len(slots) |-> [slots[i] EXCEPT !.timestamp = stamps[i]]]
    /\ UNCHANGED <<appVars, audio, stamp, parse, frame, now, calls>>

\* useEffect(..., [segment.timestamp, videoUrl]) of slot i: the cleanup of
\* its last run, then isMounted = true and fetchFrame() up to its await
SegmentEffect ==
    /\ results.mounted
    /\ \E i \in 1..Len(slots) :
        /\ EffectDue(i)
        /\ LET cleaned == { IF c.inst = slots[i].inst /\ c.idx = i
                            THEN [c EXCEPT !.isMounted = FALSE] ELSE c : c \in calls }
           IN  IF slots[i].timestamp = ""
               THEN /\ slots' = [slots EXCEPT ![i].deps = KeyOf(slots[i])]
                    /\ calls' = cleaned
                    /\ UNCHANGED results
               ELSE /\ results.serial < MaxCalls
                    /\ slots' = [slots EXCEPT ![i].deps = KeyOf(slots[i]),
                                              ![i].loading = TRUE]
                    /\ calls' = cleaned \cup
                                { [id |-> results.serial + 1, inst |-> slots[i].inst,
                                   idx |-> i, key |-> KeyOf(slots[i]), isMounted |-> TRUE] }
                    /\ results' = [results EXCEPT !.serial = @ + 1]
    /\ UNCHANGED <<appVars, audio, stamp, parse, frame, now>>

\* the App stops rendering the SummaryResult (handleClearVideo, handleFileSelect)
UnmountResults ==
    /\ results.mounted
    /\ \A i \in 1..Len(slots) : ~EffectDue(i)
    /\ results' = [results EXCEPT !.mounted = FALSE, !.videoUrl = <<>>, !.stamps = <<>>]
    /\ slots' = <<>>
    /\ UNCHANGED <<appVars, audio, stamp, parse, frame, now, calls>>

\* the cleanups of the unmounted instances: isMounted = false
UnmountCleanup ==
    /\ Orphans # {}
    /\ calls' = { IF c \in Orphans THEN [c EXCEPT !.isMounted = FALSE] ELSE c : c \in calls }
    /\ UNCHANGED <<appVars, audio, stamp, parse, frame, now, slots, results>>

\* mutant: the image goes to the first slot that shows none
Delivered_ToFirstEmpty(c, url) ==
    LET empty == { i \in 1..Len(slots) : slots[i].imageUrl = <<>> }
        first == IF empty = {} THEN c.idx ELSE CHOOSE i \in empty : \A j \in empty : i <= j
    IN  [slots EXCEPT ![first].imageUrl = IF url # <<>> THEN url ELSE @,
                      ![c.idx].loading = FALSE]

\* if (isMounted && url) setImageUrl(url); finally if (isMounted) setLoading(false)
Delivered(c, url) ==
    [slots EXCEPT ![c.idx].imageUrl = IF url # <<>> THEN url ELSE @,
                  ![c.idx].loading = FALSE]

\* the await of extractFrame in closure c resumes, with the frame of the
\* closure's key or with null; a state update of an unmounted instance is dropped
FrameResolves ==
    /\ \E c \in calls : \E url \in {<<>>, c.key} :
        /\ calls' = calls \ {c}
        /\ slots' = IF c.isMounted /\ results.mounted /\ c.inst = results.inst
                    THEN Delivered(c, url)
                    ELSE slots
    /\ UNCHANGED <<appVars, audio, stamp, parse, frame, now, results>>

-----------------------------------------------------------------------------
(* SummaryResult: the audio remix player *)

\* The player's state (isGeneratingAudio, audioData, isPlaying), its refs
\* (audioContextRef, sourceNodeRef.current as the index of a source, 0 for
\* null), and what lives outside React: the calls of playAudio that await
\* decodeAudioData, and the buffer sources created so far, each "playing",
\* "stopped" (stop() was called, its ended event is still to come) or "ended".
MaxSources == 3
MaxDecodes == 2

\* result.audioData of generateAudioReview, which is never empty
Pcm == "pcm"

AudioIdle ==
    [isGeneratingAudio |-> FALSE, audioData |-> NULL, isPlaying |-> FALSE,
     audioContext |-> FALSE, sourceNode |-> 0, decoding |-> 0, sources |-> <<>>]

\* stopAudio()
stopAudio(a) ==
    [a EXCEPT !.sources = IF a.sourceNode # 0
                          THEN [a.sources EXCEPT ![a.sourceNode] =
                                    IF @ = "playing" THEN "stopped" ELSE @]
                          ELSE a.sources,
              !.sourceNode = 0,
              !.isPlaying = FALSE]

\* a click on Weird Remix: handleGenerateAudio up to its await
handleGenerateAudio ==
    /\ audio.audioData = NULL
    /\ ~audio.isGeneratingAudio
    /\ audio' = [audio EXCEPT !.isGeneratingAudio = TRUE]
    /\ UNCHANGED <<appVars, stamp, parse, frame, now, slots, calls, results>>

\* generateAudioReview settles: the script and its audio, or the alert
GenerateAudioSettles ==
    /\ audio.isGeneratingAudio
    /\ \E ok \in BOOLEAN :
        audio' = [audio EXCEPT !.isGeneratingAudio = FALSE,
                               !.audioData = IF ok THEN Pcm ELSE @]
    /\ UNCHANGED <<appVars, stamp, parse, frame, now, slots, calls, results>>

\* a click on the player's close button
handleCloseAudio ==
    /\ audio.audioData # NULL
    /\ audio' = [stopAudio(audio) EXCEPT !.audioData = NULL]
    /\ UNCHANGED <<appVars, stamp, parse, frame, now, slots, calls, results>>

\* a click on the play/stop button: playAudio up to its await
playAudio ==
    /\ audio.audioData # NULL
    /\ IF audio.isPlaying
       THEN audio' = stopAudio(audio)
       ELSE /\ audio.decoding < MaxDecodes
            /\ audio' = [audio EXCEPT !.audioContext = TRUE, !.decoding = @ + 1]
    /\ UNCHANGED <<appVars, stamp, parse, frame, now, slots, calls, results>>

\* decodeAudioData calls resolve: playAudio creates a source and starts it
DecodeResolves ==
    /\ audio.decoding > 0
    /\ Len(audio.sources) < MaxSources
    /\ audio' = [audio EXCEPT !.decoding = @ - 1,
                              !.sources = Append(@, "playing"),
                              !.sourceNode = Len(audio.sources) + 1,
                              !.isPlaying = TRUE]
    /\ UNCHANGED <<appVars, stamp, parse, frame, now, slots, calls, results>>

\* decodeAudioData calls reject: the catch of playAudio
DecodeRejects ==
    /\ audio.decoding > 0
    /\ audio' = [audio EXCEPT !.decoding = @ - 1, !.isPlaying = FALSE]
    /\ UNCHANGED <<appVars, stamp, parse, frame, now, slots, calls, results>>

\* the ended event of a source, at the end of its buffer or after stop():
\* source.onended
SourceEnded ==
    /\ \E k \in 1..Len(audio.sources) :
        /\ audio.sources[k] \in {"playing", "stopped"}
        /\ audio' = [audio EXCEPT !.sources[k] = "ended",
                                  !.isPlaying = FALSE,
                                  !.sourceNode = 0]
    /\ UNCHANGED <<appVars, stamp, parse, frame, now, slots, calls, results>>

-----------------------------------------------------------------------------
PipelineNext ==
    \/ handleClearVideo
    \/ ClickStart
    \/ ClickRetry
    \/ EncodeResolves
    \/ EncodeRejects
    \/ ServiceSettles
    \/ SummarizeReturns
    \/ ProgressEffect
    \/ EncodingTick
    \/ AnalyzingTick

CompressionNext ==
    \/ CompressProgress
    \/ CompressResolves
    \/ CompressRejects

\* the result view is not on the page
ViewIdle ==
    /\ stamp = StampIdle
    /\ parse = ParseIdle
    /\ frame = FrameIdle
    /\ now = 0
    /\ slots = <<>>
    /\ calls = {}
    /\ results = <<>>
    /\ audio = AudioIdle

Init == AppInit /\ ViewIdle

Next ==
    \/ handleFileSelect
    \/ PipelineNext
    \/ CompressionNext

Spec == Init /\ [][Next]_vars

\* The uploader admits no file above the compression threshold, so no run of
\* the program awaits compressVideo: CompressionNext is never enabled.
ProgramNext ==
    \/ validateAndProcessFile
    \/ PipelineNext

ProgramSpec == Init /\ [][ProgramNext]_vars

WholeNext ==
    \/ ProgramNext
    \/ CompressionNext

WholeSpec == Init /\ [][WholeNext]_vars

-----------------------------------------------------------------------------
(* The components of the result view, each on its own *)

\* parseTimestamp, evaluated step by step on each of the timestamps
TimestampNext ==
    \/ StripBrackets
    \/ SplitParts
    \/ ReturnSeconds

TimestampInit ==
    /\ AppInit
    /\ stamp \in StampCalls
    /\ parse = ParseIdle /\ frame = FrameIdle /\ now = 0
    /\ slots = <<>> /\ calls = {} /\ results = <<>> /\ audio = AudioIdle

TimestampSpec == TimestampInit /\ [][TimestampNext]_vars

\* the parsedContent memo, evaluated step by step on each of the documents
ParserNext ==
    \/ ExtractExecutive
    \/ ExtractTimeline
    \/ ExtractTakeaways
    \/ ReturnParsed

ParserInit ==
    /\ AppInit
    /\ parse \in ParseCalls
    /\ stamp = StampIdle /\ frame = FrameIdle /\ now = 0
    /\ slots = <<>> /\ calls = {} /\ results = <<>> /\ audio = AudioIdle

ParserSpec == ParserInit /\ [][ParserNext]_vars

\* one call of extractFrame; time passes and a due timer fires
FrameNext ==
    \/ LoadedMetadata
    \/ Seeked
    \/ VideoError
    \/ FrameTimeoutFires
    \/ FrameTick

FrameInit ==
    /\ AppInit
    /\ frame \in FrameCalls
    /\ now = 0
    /\ stamp = StampIdle /\ parse = ParseIdle
    /\ slots = <<>> /\ calls = {} /\ results = <<>> /\ audio = AudioIdle

FrameSpec ==
    /\ FrameInit
    /\ [][FrameNext]_vars
    /\ WF_vars(FrameTick)
    /\ WF_vars(FrameTimeoutFires)

\* the segment list under a SummaryResult that is mounted, re-rendered and unmounted
SegmentsNext ==
    \/ MountResults
    \/ RenderAgain
    \/ SegmentEffect
    \/ UnmountResults
    \/ UnmountCleanup
    \/ FrameResolves

SegmentsInit ==
    /\ AppInit
    /\ results = NoResults /\ slots = <<>> /\ calls = {} /\ audio = AudioIdle
    /\ stamp = StampIdle /\ parse = ParseIdle /\ frame = FrameIdle /\ now = 0

SegmentsSpec == SegmentsInit /\ [][SegmentsNext]_vars

\* the audio remix player of a SummaryResult that stays on the page
AudioNext ==
    \/ handleGenerateAudio
    \/ GenerateAudioSettles
    \/ handleCloseAudio
    \/ playAudio
    \/ DecodeResolves
    \/ DecodeRejects
    \/ SourceEnded

AudioInit ==
    /\ AppInit
    /\ audio = AudioIdle
    /\ stamp = StampIdle /\ parse = ParseIdle /\ frame = FrameIdle /\ now = 0
    /\ slots = <<>> /\ calls = {} /\ results = <<>>

AudioSpec == AudioInit /\ [][AudioNext]_vars

-----------------------------------------------------------------------------
(* Properties of the status state machine *)

\* the statuses of a pipeline that is under way
ActiveStages == {COMPRESSING, PROCESSING_VIDEO, ANALYZING}

\* the size rule, stated on a byte count: above 19 MiB
Above19MiB(size) == size > 19 * 1048576

\* the last element of a non-empty sequence
Last(s) == s[Len(s)]

\* the history variables follow the status
TrailFollowsStatus ==
    /\ (trail # <<>> => Last(trail) = status /\ video # <<>>)
    /\ (trail = <<>> => status = IDLE /\ prev = <<>>)

\* C1: in every run on a selected video, a file above 19 MiB reaches Encoding
\* (PROCESSING_VIDEO) only after Compressing, and a file of at most 19 MiB
\* (exactly 19 MiB included) is never in Compressing during the run.
C1_CompressingPerSizeRule ==
    trail # <<>> =>
        /\ video # <<>>
        /\ IF Above19MiB(video[1].size)
           THEN \A i \in 1..Len(trail) :
                    trail[i] = PROCESSING_VIDEO =>
                        \E j \in 1..(i - 1) : trail[j] = COMPRESSING
           ELSE /\ status # COMPRESSING
                /\ \A i \in 1..Len(trail) : trail[i] # COMPRESSING

\* a run on a file of 19 MiB and one byte is in Encoding, after Compressing
C1_Witness ==
    /\ video # <<>>
    /\ video[1].size = 19 * 1048576 + 1
    /\ status = PROCESSING_VIDEO
    /\ trail = <<COMPRESSING, PROCESSING_VIDEO>>

\* a run on a file of exactly 19 MiB is in Encoding without any Compressing
C1_WitnessAtThreshold ==
    /\ video # <<>>
    /\ video[1].size = 19 * 1048576
    /\ trail = <<PROCESSING_VIDEO>>

\* C2: a user can select a 25 MB video, which then enters the pipeline (and
\* visits Compressing): the video file of 25 MB handed to the uploader becomes
\* the App's selected video.
C2_LargeVideoIsSelected ==
    (/\ selected # <<>>
     /\ IsVideoType(selected[1].type)
     /\ selected[1].size = 25000000)
        => video = selected

\* in the program no state is in Compressing: the uploader lets no file above
\* 19 MiB through
C2_ProgramNeverCompresses ==
    /\ status # COMPRESSING
    /\ \A i \in 1..Len(trail) : trail[i] # COMPRESSING
    /\ (video # <<>> => ~Above19MiB(video[1].size) /\ IsVideoType(video[1].type))

\* C3: every step that sets the status to Error starts in Compressing,
\* Encoding or Analyzing; never in Idle or Complete.
C3_ErrorOnlyFromActiveStage ==
    [][(status' = ERROR /\ status # ERROR) => status \in ActiveStages]_vars

\* Error has been entered from Encoding
C3_Witness ==
    /\ status = ERROR
    /\ Len(trail) >= 2
    /\ trail[Len(trail) - 1] = PROCESSING_VIDEO

\* the status a start or retry enters, by the size of the selected file
EntryStatus == IF Above19MiB(video[1].size) THEN COMPRESSING ELSE PROCESSING_VIDEO

C5_RunsReadTheOriginal ==
    /\ (video # <<>> => video[1] \in Files)
    /\ \A i \in 1..Len(runs) :
        /\ video = <<runs[i].src>>
        /\ (runs[i].pc = "compress" => runs[i].file = runs[i].src)
    /\ (trail # <<>> =>
            /\ video # <<>>
            /\ (trail[1] = COMPRESSING <=> Above19MiB(video[1].size))
            /\ trail[1] \in {COMPRESSING, PROCESSING_VIDEO})

\* a run compressed the file and failed later; the retry compresses the
\* original again
C5_Witness ==
    /\ Len(prev) >= 3
    /\ prev[1] = COMPRESSING
    /\ prev[2] = PROCESSING_VIDEO
    /\ Last(prev) = ERROR
    /\ Len(runs) = 1
    /\ runs[1].pc = "compress"
    /\ runs[1].file = video[1]
    /\ status = COMPRESSING

\* C6: at most one run of handleGenerateSummary is in flight: a run is in
\* flight exactly while the status is Compressing, Encoding or Analyzing, and
\* then neither the start button nor the retry button nor the remove button is
\* enabled.
C6_SingleRunInFlight ==
    /\ Len(runs) <= 1
    /\ (runs # <<>> <=> status \in ActiveStages)
    /\ (status \in ActiveStages =>
            ~StartEnabled /\ ~RetryEnabled /\ ~ClearEnabled)

\* a run awaits the analysis service, and no button can start another
C6_Witness ==
    /\ Len(runs) = 1
    /\ runs[1].pc = "analyze"
    /\ status = ANALYZING
    /\ ~StartEnabled
    /\ ~RetryEnabled
    /\ ~ClearEnabled

\* the message the analysis call fails with, by what the service settled with
FailureMessage(r) ==
    IF r.kind = "error"
    THEN IF r.body # "" THEN r.body ELSE "Failed to generate summary"
    ELSE "No text response received from the model."

\* the service's outcome is a failure: a thrown error, or a response without text
IsFailure(r) == r.kind = "error" \/ (r.kind = "text" /\ r.body = "")

\* C7: when the analysis call fails in Analyzing, the run's next step sets the
\* status to Error and the error text to the failure's message (a fixed text
\* only when the failure has no message), and the summary stays null.
C7_AnalysisFailureKeepsMessage ==
    [][\A i \in 1..Len(runs) :
        (/\ status = ANALYZING
         /\ runs[i].pc = "analyze"
         /\ IsFailure(runs[i].response)
         /\ runs' # runs)
            => /\ status' = ERROR
               /\ error' = FailureMessage(runs[i].response)
               /\ summary = NULL
               /\ summary' = NULL]_vars

\* the analysis failed with a network error, whose message is the error text
C7_Witness ==
    /\ status = ERROR
    /\ error = "Network error"
    /\ summary = NULL
    /\ Len(trail) >= 2
    /\ trail[Len(trail) - 1] = ANALYZING

\* C8: when the compression fails in Compressing, the run ends in Error with
\* the compression message, without entering Encoding or calling the analysis;
\* when it succeeds, the run enters Encoding with the derivative compressed.mp4
\* (video/mp4) as the file it encodes, and that derivative and its media type
\* are what the run hands to the analysis.
C8_CompressionOutcome ==
    [][/\ \A i \in 1..Len(runs) :
            (/\ status = COMPRESSING
             /\ runs[i].pc = "compress"
             /\ runs' # runs)
                => \/ /\ status' = ERROR
                      /\ error' = "Video compression failed. Please try a smaller file."
                      /\ runs' = <<>>
                      /\ summary' = NULL
                   \/ /\ status' = PROCESSING_VIDEO
                      /\ Len(runs') = Len(runs)
                      /\ runs'[i].pc = "encode"
                      /\ runs'[i].file.name = "compressed.mp4"
                      /\ runs'[i].file.type = [top |-> "video", sub |-> "mp4"]
                      /\ runs'[i].file # runs[i].src
                      /\ runs'[i].request = NoRequest
       /\ \A i \in 1..Len(runs') :
            (runs'[i].pc = "analyze" /\ Above19MiB(runs'[i].src.size))
                => /\ runs'[i].request.mimeType = [top |-> "video", sub |-> "mp4"]
                   /\ runs'[i].request.data = Base64Of(runs'[i].file)
                   /\ runs'[i].request.data # Base64Of(runs'[i].src)]_vars

\* the compression failed: Error with the compression message, straight from
\* Compressing
C8_Witness ==
    /\ status = ERROR
    /\ error = "Video compression failed. Please try a smaller file."
    /\ trail = <<COMPRESSING, ERROR>>
    /\ runs = <<>>

\* the compression succeeded and the derivative went to the analysis
C8_WitnessSuccess ==
    /\ status = ANALYZING
    /\ Len(runs) = 1
    /\ runs[1].file.name = "compressed.mp4"
    /\ runs[1].request.mimeType = [top |-> "video", sub |-> "mp4"]
    /\ video[1].type = [top |-> "video", sub |-> "quicktime"]

\* C9: from Complete the status stays Complete and the summary stays as it is,
\* until the video is removed or another file is selected, which resets the
\* status to Idle and the summary to null; the start button is not enabled in
\* Complete.
C9_CompleteIsTerminal ==
    [][status = COMPLETE =>
            /\ ~StartEnabled
            /\ summary # NULL
            /\ \/ status' = COMPLETE /\ summary' = summary /\ video' = video
               \/ status' = IDLE /\ summary' = NULL /\ video' # video]_vars

\* a run has completed: the summary is shown and progress is at 100
C9_Witness ==
    /\ status = COMPLETE
    /\ summary = "## Executive Summary"
    /\ progress = 100 * Tenths
    /\ runs = <<>>

\* C10: progress is in [0, 100] in every reachable state.
C10_ProgressInRange ==
    /\ progress >= 0
    /\ progress <= 100 * Tenths

\* the compression has reported more than its range and progress shows 100
C10_Witness ==
    /\ status = COMPRESSING
    /\ progress = 100 * Tenths

\* the analysis ramp has reached its cap
C10_WitnessAnalyzingCap ==
    /\ status = ANALYZING
    /\ progress = 95 * Tenths

-----------------------------------------------------------------------------
(* Properties of parseTimestamp *)

\* a field written in decimal digits, and the number it denotes
IsDecimal(text) == text # <<>> /\ \A i \in 1..Len(text) : IsDigitIn(text[i], 10)

RECURSIVE Denotes(_)
Denotes(text) ==
    IF text = <<>> THEN 0
    ELSE 10 * Denotes(SubSeq(text, 1, Len(text) - 1)) + DigitValue(text[Len(text)])

\* MM:SS or HH:MM:SS
WellFormedStamp(shape) ==
    /\ Len(shape.fields) \in {2, 3}
    /\ \A i \in 1..Len(shape.fields) : IsDecimal(shape.fields[i])

StampSeconds(shape) ==
    LET f == shape.fields IN
    IF Len(f) = 2 THEN 60 * Denotes(f[1]) + Denotes(f[2])
    ELSE 3600 * Denotes(f[1]) + 60 * Denotes(f[2]) + Denotes(f[3])

\* C15: for a well-formed token, MM:SS or HH:MM:SS in decimal digits, with or
\* without surrounding brackets, parseTimestamp returns 60*MM+SS, respectively
\* 3600*HH+60*MM+SS; '01:30' and '[01:30]' give 90 and '01:02:03' gives 3723.
C15_WellFormedSeconds ==
    stamp.pc = "done" =>
        /\ WellFormedStamp(stamp.shape) => stamp.out = Num(StampSeconds(stamp.shape))
        /\ stamp.input = <<"0", "1", ":", "3", "0">> => stamp.out = Num(90)
        /\ stamp.input = <<"[", "0", "1", ":", "3", "0", "]">> => stamp.out = Num(90)
        /\ stamp.input = <<"0", "1", ":", "0", "2", ":", "0", "3">> => stamp.out = Num(3723)

\* a bracketed HH:MM:SS has been parsed
C15_Witness ==
    /\ stamp.pc = "done"
    /\ stamp.shape.bracketed
    /\ stamp.shape.fields = << <<"0", "1">>, <<"0", "2">>, <<"0", "3">> >>
    /\ stamp.out = Num(3723)

\* a bare MM:SS has been parsed
C15_WitnessMinutes ==
    /\ stamp.pc = "done"
    /\ stamp.input = <<"0", "1", ":", "3", "0">>
    /\ stamp.out = Num(90)

\* C16: for every input, parseTimestamp returns a non-negative integer, and it
\* returns 0 whenever the input is empty, has a part count other than 2 or 3,
\* or has a part that is not a number.
C16_NonNegativeAndZeroOnMalformed ==
    stamp.pc = "done" =>
        /\ ~stamp.out.nan /\ stamp.out.n >= 0
        /\ ( \/ stamp.input = <<>>
             \/ Len(stamp.shape.fields) \notin {2, 3}
             \/ \E i \in 1..Len(stamp.shape.fields) : ~IsDecimal(stamp.shape.fields[i]) )
           => stamp.out = Num(0)

\* what the code does return: 0 for an empty input and for a part count other
\* than 2 or 3, and otherwise the sum over what parseInt makes of each part
C16_ZeroOnEmptyOrPartCount ==
    stamp.pc = "done" /\ (stamp.input = <<>> \/ Len(stamp.shape.fields) \notin {2, 3})
        => stamp.out = Num(0)

\* 'ab:30' has been parsed, to NaN
C16_WitnessNaN ==
    /\ stamp.pc = "done"
    /\ stamp.input = <<"a", "b", ":", "3", "0">>
    /\ stamp.out = NaN

\* a negative field has been parsed, to a negative number of seconds
C16_WitnessNegative ==
    /\ stamp.pc = "done"
    /\ stamp.input = <<"-", "1", ":", "3", "0">>
    /\ stamp.out = Num(-30)

-----------------------------------------------------------------------------
(* Properties of the parsedContent memo *)

\* the parse of the i-th block of the document, once the memo has returned
ParsedBlock(i) == parse.out.timelineSegments[i]

FieldOfSegment(segment, label) ==
    IF label = SpeakerLabel THEN segment.speaker
    ELSE IF label = SentimentLabel THEN segment.sentiment
    ELSE IF label = DialogueLabel THEN segment.dialogue
    ELSE segment.visualContext

DefaultOf(label) ==
    IF label = SpeakerLabel THEN <<"Unknown Speaker">>
    ELSE IF label = SentimentLabel THEN <<"Neutral">>
    ELSE IF label = DialogueLabel THEN <<"No dialogue detected.">>
    ELSE <<>>

\* C11: for a document whose chronological section holds N blocks, each
\* starting with the segment mark, the memo returns exactly N segments, the
\* i-th one built from the i-th block: the text before the first mark is
\* dropped and the segments are in document order whatever their timestamps.
C11_SegmentsInDocumentOrder ==
    parse.pc = "done" /\ parse.shape.timed =>
        LET blocks == parse.shape.blocks IN
        IF Len(blocks) = 0
        THEN parse.out.structured => parse.out.timelineSegments = <<>>
        ELSE /\ parse.out.structured
             /\ Len(parse.out.timelineSegments) = Len(blocks)
             /\ \A i \in 1..Len(blocks) :
                    /\ ParsedBlock(i).raw = BlockText(blocks[i])
                    /\ blocks[i].stamp # "none" => ParsedBlock(i).timestamp = <<blocks[i].stamp>>

\* two blocks after a preface, the later timestamp first, parsed in that order
C11_Witness ==
    /\ parse.pc = "done"
    /\ parse.shape.timed /\ parse.shape.lead
    /\ Len(parse.shape.blocks) = 2
    /\ parse.shape.blocks[1].stamp = "01:30" /\ parse.shape.blocks[2].stamp = "00:05"
    /\ parse.out.structured
    /\ Len(parse.out.timelineSegments) = 2
    /\ ParsedBlock(1).timestamp = <<"01:30">> /\ ParsedBlock(2).timestamp = <<"00:05">>

C12_WitnessAllAbsent ==
    /\ parse.pc = "done"
    /\ parse.shape.timed
    /\ Len(parse.shape.blocks) >= 1
    /\ parse.shape.blocks[1].fields = {}
    /\ parse.out.structured
    /\ \A label \in FieldLabels : FieldOfSegment(ParsedBlock(1), label) = DefaultOf(label)

\* C13: the memo always returns, and it returns the sentinel exactly when the
\* executive summary it extracted is empty and it extracted no segment; so it
\* does for a document with no executive header and no segment mark, and it
\* does not for one with a written executive summary or with a block under
\* the chronological header.
C13_SentinelExactlyWhenNothingExtracted ==
    parse.pc = "done" =>
        /\ parse.out = Unparsed <=> (parse.executive = <<>> /\ parse.timelineSegments = <<>>)
        /\ parse.out # Unparsed =>
               /\ parse.out.executive = parse.executive
               /\ parse.out.timelineSegments = parse.timelineSegments
        /\ (parse.shape.exec = "absent" /\ parse.shape.blocks = <<>>) => parse.out = Unparsed
        /\ parse.shape.exec = "written" => parse.out # Unparsed
        /\ (parse.shape.timed /\ parse.shape.blocks # <<>>) => parse.out # Unparsed

\* a document with neither executive header nor segment mark got the sentinel
C13_Witness ==
    /\ parse.pc = "done"
    /\ parse.shape.exec = "absent"
    /\ parse.shape.blocks = <<>>
    /\ parse.shape.takeaways = "key"
    /\ parse.out = Unparsed

\* a document with blocks but no executive summary got the structure
C13_WitnessSegmentsOnly ==
    /\ parse.pc = "done"
    /\ parse.shape.exec = "blank"
    /\ parse.shape.timed
    /\ Len(parse.shape.blocks) = 1
    /\ parse.out # Unparsed
    /\ parse.out.executive = <<>>

-----------------------------------------------------------------------------
(* Properties of extractFrame *)

FrameSettled == frame.promise \in {"image", "null"}

\* C17: every call of extractFrame resolves, with an image or with null,
\* whichever events of the video element occur and in whatever order: the
\* promise is settled once the 4 second timeout is behind, and it takes no
\* value other than an image or null.
C17_ResolvesByTimeout ==
    /\ <>FrameSettled
    /\ [](frame.promise \in {"pending", "image", "null"})
    /\ []((now > FrameTimeout \/ (now = FrameTimeout /\ frame.timer # "armed")) => FrameSettled)

\* the timeout has resolved a call whose metadata never arrived
C17_Witness ==
    /\ frame.pc = "called"
    /\ frame.media = "loading"
    /\ frame.timer = "fired"
    /\ frame.promise = "null"
    /\ now = FrameTimeout

\* a call has resolved with an image before the timeout
C17_WitnessImage ==
    /\ frame.pc = "called"
    /\ frame.promise = "image"
    /\ frame.timer = "cleared"
    /\ now < FrameTimeout

\* C18: on every exit path of extractFrame (success, timeout, video error,
\* failed canvas context, failed encoding) the temporary video element is
\* released: its source cleared and the element removed.
C18_ReleasedOnEveryExit == FrameSettled => frame.element = "released"

\* what the code does release: the element of a call whose seek completed
C18_ReleasedAfterSeeked ==
    [][frame.pc = "called" /\ frame.element = "live" /\ frame'.element = "released"
        => frame.media = "seeking" /\ frame'.media = "seeked"]_vars

\* the timeout has resolved the call and the element still has its source
C18_WitnessTimeout ==
    /\ frame.pc = "called"
    /\ frame.timer = "fired"
    /\ frame.promise = "null"
    /\ frame.element = "live"
    /\ now = MaxClock

\* the error handler has resolved the call and the element still has its source
C18_WitnessError ==
    /\ frame.pc = "called"
    /\ frame.media = "failed"
    /\ frame.promise = "null"
    /\ frame.element = "live"
    /\ now = MaxClock

-----------------------------------------------------------------------------
(* Properties of the segment list *)

\* slot i, the same instance before and after the step, shows a new image
ImageWritten(i) ==
    /\ i <= Len(slots')
    /\ slots'[i].inst = slots[i].inst
    /\ slots'[i].imageUrl # slots[i].imageUrl

C19_WritesOnlyBeforeCleanup ==
    [][\A i \in 1..Len(slots) :
          ImageWritten(i) =>
              /\ slots'[i].imageUrl = slots[i].deps
              /\ \E c \in calls : /\ c \notin calls'
                                  /\ c.isMounted /\ c.inst = slots[i].inst /\ c.idx = i
                                  /\ c.key = slots'[i].imageUrl]_vars

\* no closure of an unmounted instance changes a slot of the mounted one
C19_ClearedAssetNeverWrites ==
    [][\A c \in calls :
          (calls' = calls \ {c} /\ (~results.mounted \/ c.inst # results.inst))
              => slots' = slots]_vars

\* a slot shows the frame of a key it no longer has, while its effect is due
C19_WitnessStale ==
    /\ results.mounted
    /\ \E i \in 1..Len(slots) :
        /\ EffectDue(i)
        /\ slots[i].imageUrl # <<>>
        /\ slots[i].imageUrl = slots[i].deps
        /\ slots[i].imageUrl # KeyOf(slots[i])
        /\ ~slots[i].loading

\* a closure of the first mount is still awaited under the second mount
C19_WitnessAfterClear ==
    /\ results.mounted
    /\ results.inst = 2
    /\ \E c \in calls : c.inst = 1 /\ ~c.isMounted

\* C20: the slots are the parsed segments in document order, whatever the
\* order in which the extractions complete, and the completion of one
\* extraction changes nothing but the slot of its own segment.
C20_OrderKeptAndSlotsIndependent ==
    /\ [](results.mounted =>
            /\ Len(slots) = Len(results.stamps)
            /\ \A i \in 1..Len(slots) : slots[i].timestamp = results.stamps[i])
    /\ [][\A c \in calls :
             calls' = calls \ {c} =>
                 /\ results' = results
                 /\ Len(slots') = Len(slots)
                 /\ \A j \in 1..Len(slots) : j # c.idx => slots'[j] = slots[j]]_vars

\* the second segment has its frame while the first is still loading
C20_Witness ==
    /\ results.mounted
    /\ Len(slots) = 2
    /\ slots[1].loading /\ slots[1].imageUrl = <<>>
    /\ ~slots[2].loading /\ slots[2].imageUrl = KeyOf(slots[2])
    /\ slots[1].timestamp = "01:30" /\ slots[2].timestamp = "00:05"

-----------------------------------------------------------------------------
(* Properties of the application as a whole *)

\* the file is not a video, or it is larger than 19 MiB
Inadmissible(file) == file.type.top # "video" \/ Above19MiB(file.size)

\* C21: selecting a file whose media type is not a video type or whose size
\* exceeds 19 MiB reports a validation error at once and creates no asset:
\* the App's video, status, summary and error stay as they are; and every
\* asset the App holds is a video of at most 19 MiB.
C21_InadmissibleFilesAreRejected ==
    /\ [](video # <<>> => ~Inadmissible(video[1]))
    /\ [][(<<selected, uploaderError>>' # <<selected, uploaderError>>
            /\ selected' # <<>> /\ Inadmissible(selected'[1]))
           => /\ uploaderError' \in {InvalidFormatMsg, SizeExceededMsg}
              /\ UNCHANGED <<video, status, summary, error, progress, runs>>]_vars

\* an oversized video has been turned away
C21_Witness ==
    /\ selected # <<>>
    /\ selected[1].type.top = "video"
    /\ Above19MiB(selected[1].size)
    /\ uploaderError = SizeExceededMsg
    /\ video = <<>>
    /\ status = IDLE

\* a file that is not a video has been turned away
C21_WitnessFormat ==
    /\ selected # <<>>
    /\ selected[1].type.top = "image"
    /\ uploaderError = InvalidFormatMsg
    /\ video = <<>>

\* the position of a stage on the pipeline's path
StageRank(s) ==
    CASE s = IDLE -> 0
      [] s = COMPRESSING -> 1
      [] s = PROCESSING_VIDEO -> 2
      [] s = ANALYZING -> 3
      [] s = COMPLETE -> 4
      [] OTHER -> 5

\* one move of a run in flight: to the next stage of the path, Compressing
\* being followed by Encoding, or from any stage in flight into Error
RunMove(from, to) ==
    \/ from = COMPRESSING /\ to = PROCESSING_VIDEO
    \/ from = PROCESSING_VIDEO /\ to = ANALYZING
    \/ from = ANALYZING /\ to = COMPLETE
    \/ from \in ActiveStages /\ to = ERROR

\* C22: within one run the status advances only along Idle, Compressing
\* (optional), Encoding, Analyzing, Complete: a run starts in Compressing or
\* Encoding from a status at rest, every later move of the status is to the
\* next stage or into Error, the stages recorded for a run are in strictly
\* rising order, and a run that is Complete went through Encoding and
\* Analyzing.
C22_StatusAdvancesAlongThePath ==
    /\ [][status' # status =>
            IF status \in ActiveStages
            THEN RunMove(status, status') /\ trail' = Append(trail, status')
            ELSE \/ /\ status' \in {COMPRESSING, PROCESSING_VIDEO}
                    /\ Len(runs') = Len(runs) + 1
                    /\ trail' = <<status'>>
                 \/ status' = IDLE /\ runs = <<>>]_vars
    /\ [](\A k \in 1..Len(trail) - 1 :
            /\ RunMove(trail[k], trail[k + 1])
            /\ StageRank(trail[k]) < StageRank(trail[k + 1]))
    /\ [](status = COMPLETE =>
            /\ Len(trail) >= 3
            /\ trail[Len(trail) - 1] = ANALYZING
            /\ trail[Len(trail) - 2] = PROCESSING_VIDEO
            /\ trail[1] \in {COMPRESSING, PROCESSING_VIDEO})

\* C22 witness: a run went through all four stages, compression included
C22_Witness ==
    /\ status = COMPLETE
    /\ trail = <<COMPRESSING, PROCESSING_VIDEO, ANALYZING, COMPLETE>>

\* C22 witness: a run left the path for Error from the analysis
C22_WitnessError ==
    /\ status = ERROR
    /\ trail = <<PROCESSING_VIDEO, ANALYZING, ERROR>>

\* C23: whenever the status is Error the progress is 0, a tick of the previous
\* stage's timer around the move into Error included.
C23_ErrorHasZeroProgress == status = ERROR => progress = 0

\* C23: the tick that breaks it: the status is Error, the effect of that commit
\* has not yet cancelled the timer of the stage that failed, and the timer's
\* updater has run on the 0 the catch stored
C23_StaleTickAfterError ==
    /\ status = ERROR
    /\ interval # "none"
    /\ progress > 0

\* C23: once the effect of the Error commit has run, no timer is registered and
\* the progress no longer changes while the status is Error
C23_NoTickAfterEffect ==
    [][(status = ERROR /\ ~EffectPending /\ status' = ERROR) => progress' = progress]_vars

\* C24: while the status is Encoding, the progress starts at 0, rises by the
\* step of 2 per tick toward the cap of 35, never exceeds the cap and never
\* decreases from one tick to the next.
C24_EncodingRampWithinCap ==
    /\ [](status = PROCESSING_VIDEO => progress <= EncodingCap * Tenths)
    /\ [][(status # PROCESSING_VIDEO /\ status' = PROCESSING_VIDEO) => progress' = 0]_vars
    /\ [][(status = PROCESSING_VIDEO /\ status' = PROCESSING_VIDEO /\ progress' # progress)
            => progress' = progress + EncodingStep * Tenths]_vars

\* C24: the tick that passes the cap: from 34 the updater stores 36
C24_AboveCap ==
    /\ status = PROCESSING_VIDEO
    /\ progress = (EncodingCap + 1) * Tenths

\* C24: what the ramp does keep: it starts at 0, a tick below the cap adds the
\* step, a tick at or above the cap stores the cap, so the progress stays below
\* cap + step
C24_RampAsCoded ==
    /\ [](status = PROCESSING_VIDEO => progress < (EncodingCap + EncodingStep) * Tenths)
    /\ [][(status # PROCESSING_VIDEO /\ status' = PROCESSING_VIDEO) => progress' = 0]_vars
    /\ [][(status = PROCESSING_VIDEO /\ status' = PROCESSING_VIDEO /\ progress' # progress)
            => IF progress < EncodingCap * Tenths
               THEN progress' = progress + EncodingStep * Tenths
               ELSE progress' = EncodingCap * Tenths]_vars

(* Further properties of the parsedContent memo *)

\* the top-level headers that follow the executive section in a document
LaterHeaders == {TimelineHeader, CriticalHeader, KeyHeader}

\* the text between the executive header and the first of the given headers
\* after it, or the end of the document, trimmed; empty without the header
ExecutiveUpTo(doc, headers) ==
    IF \A i \in 1..Len(doc) : doc[i] # ExecHeader THEN <<>>
    ELSE LET h == CHOOSE i \in 1..Len(doc) :
                      doc[i] = ExecHeader /\ \A j \in 1..(i - 1) : doc[j] # ExecHeader
             later == { i \in (h + 1)..Len(doc) : doc[i] \in headers }
             e == IF later = {} THEN Len(doc)
                  ELSE (CHOOSE i \in later : \A j \in later : i <= j) - 1
         IN  Trim(SubSeq(doc, h + 1, e))

ExecutiveExtracted == parse.pc \in {"executive", "timeline", "takeaways", "done"}

\* C25: the executive summary is exactly the text between the executive header
\* and the next top-level header, chronological or takeaways, or the end of the
\* document; it holds no header of another section, also in a document without
\* a chronological section.
C25_ExecutiveStopsAtNextHeader ==
    ExecutiveExtracted =>
        /\ parse.executive = ExecutiveUpTo(parse.summary, LaterHeaders)
        /\ \A i \in 1..Len(parse.executive) : parse.executive[i] \notin LaterHeaders

\* C25: the document that breaks it: an executive section followed by the
\* takeaways with no chronological header between them; the takeaways header
\* and its bullets are part of the executive text
C25_SwallowsTakeaways ==
    /\ ExecutiveExtracted
    /\ ~parse.shape.timed
    /\ parse.shape.exec = "written"
    /\ \E i \in 1..Len(parse.executive) : parse.executive[i] \in StartsKey

\* C25: what the pattern does: the text runs to the chronological header or,
\* without one, to the end of the document
C25_ExecutiveStopsAtChronological ==
    ExecutiveExtracted => parse.executive = ExecutiveUpTo(parse.summary, {TimelineHeader})

\* a bullet line without its marker: the first '*' or '-' and the white space
\* around it
BulletBody(item) ==
    LET line == Trim(item) IN
    IF line # <<>> /\ Head(line) \in {Bullet, Dash} THEN Trim(Tail(line)) ELSE line

\* the index of the '**' that closes a title opened at the start of body and
\* is followed by ':', or 0
TitleClose(body) ==
    IF Len(body) >= 3 /\ body[1] = Bold
       /\ \E j \in 2..(Len(body) - 1) : body[j] = Bold /\ body[j + 1] = Colon
    THEN CHOOSE j \in 2..(Len(body) - 1) :
            /\ body[j] = Bold /\ body[j + 1] = Colon
            /\ \A k \in 2..(j - 1) : body[k] # Bold
    ELSE 0

\* the insight a bullet stands for: '**Title**: content' gives the title and
\* the content, any other bullet gives 'Observation' and the whole text
InsightOfBullet(item) ==
    LET body == BulletBody(item)
        j == TitleClose(body)
    IN  IF j = 0 THEN [title |-> <<"Observation">>, content |-> body]
        ELSE [title |-> SubSeq(body, 2, j - 1),
              content |-> Trim(SubSeq(body, j + 2, Len(body)))]

TakeawayItems == SelectSeq(Split(parse.rawTakeaways, NL), IsItem)

TakeawaysExtracted == parse.pc \in {"takeaways", "done"}

\* C26: every bullet of the takeaways of the form '**Title**: content' gives
\* the insight with that title and content, every other bullet gives the title
\* 'Observation' with the bullet's whole text as content.
C26_InsightPerBullet ==
    TakeawaysExtracted =>
        /\ Len(parse.insights) = Len(TakeawayItems)
        /\ \A i \in 1..Len(TakeawayItems) :
              parse.insights[i] = InsightOfBullet(TakeawayItems[i])

\* C26: the bullet that breaks it: '*   **Pacing**: uneven' comes out under
\* the title 'Observation', its content starting at 'Pacing'
C26_TitleLost ==
    /\ TakeawaysExtracted
    /\ Len(parse.insights) = 2
    /\ InsightOfBullet(TakeawayItems[1]).title = <<"Pacing">>
    /\ parse.insights[1] = [title |-> <<"Observation">>,
                            content |-> <<"Pacing", Bold, Colon, SP, "uneven">>]

\* C26: what does hold: one insight per bullet, in the order of the bullets,
\* and a bullet without a title gives 'Observation' with its whole text
C26_UntitledBulletsKept ==
    TakeawaysExtracted =>
        /\ Len(parse.insights) = Len(TakeawayItems)
        /\ \A i \in 1..Len(TakeawayItems) :
              TitleClose(BulletBody(TakeawayItems[i])) = 0
                  => parse.insights[i] = InsightOfBullet(TakeawayItems[i])

(* Further properties of the segment list *)

\* this step resumes closure c with null, on the instance that is on the page
\* and for the key its segment has now: the closure is gone, it was allowed to
\* write, and the slot's image is not the frame of the closure's key
ResolvesNullForCurrentKey(c) ==
    /\ c \in calls
    /\ calls' = calls \ {c}
    /\ results.mounted /\ c.inst = results.inst /\ c.isMounted
    /\ c.idx \in 1..Len(slots)
    /\ c.key = KeyOf(slots[c.idx])
    /\ slots'[c.idx].imageUrl # c.key

\* the slot shows 'Frame Unavailable': no spinner and no image
Unavailable(slot) == ~slot.loading /\ slot.imageUrl = <<>>

C27_OldImageShown ==
    /\ results.mounted
    /\ \E i \in 1..Len(slots) :
        /\ ~EffectDue(i)
        /\ ~slots[i].loading
        /\ \A c \in calls : ~(c.inst = slots[i].inst /\ c.idx = i)
        /\ slots[i].imageUrl # <<>>
        /\ slots[i].imageUrl # KeyOf(slots[i])

\* C27: what does hold: a null for the current key ends the loading, leaves
\* the image as it was and starts no extraction; a slot that showed no image
\* ends in Unavailable
C27_NullKeepsTheImage ==
    [][\A c \in calls :
          ResolvesNullForCurrentKey(c) =>
              /\ ~slots'[c.idx].loading
              /\ slots'[c.idx].imageUrl = slots[c.idx].imageUrl
              /\ (slots[c.idx].imageUrl = <<>> => Unavailable(slots'[c.idx]))
              /\ results'.serial = results.serial]_vars

\* C28: the error text is non-null exactly when the status is Error; every
\* step that leaves Error (selecting a file, clearing, starting or retrying a
\* run) clears the error in the same step, and every step into Error stores a
\* non-empty message.
C28_ErrorTextExactlyInError ==
    /\ [](error # NULL <=> status = ERROR)
    /\ [][(status = ERROR /\ status' # ERROR) => error' = NULL]_vars
    /\ [][(status # ERROR /\ status' = ERROR) => error' \notin {NULL, ""}]_vars

\* C28 witness: a run failed with an error that carries no message, and the
\* fallback text is stored
C28_Witness ==
    /\ status = ERROR
    /\ error = FatalMsg

\* C28 witness: a retry has left Error and the error text is gone
C28_WitnessRetry ==
    /\ Len(prev) > 0 /\ Last(prev) = ERROR
    /\ status \in ActiveStages
    /\ error = NULL

\* C29: the summary is non-null exactly when the status is Complete; with no
\* video selected the status is Idle and summary and error are null; and no
\* result of a run is shown for another asset: a run is in flight only on the
\* selected video, a summary is stored only by a run made on the video that is
\* selected, and a change of the video leaves no run and no summary behind.
C29_SummaryBelongsToSelectedVideo ==
    /\ [](summary # NULL <=> status = COMPLETE)
    /\ [](video = <<>> => status = IDLE /\ summary = NULL /\ error = NULL)
    /\ [](\A i \in 1..Len(runs) : video # <<>> /\ runs[i].src = video[1])
    /\ [][(summary' # summary /\ summary' # NULL) =>
             /\ video' = video
             /\ \E i \in 1..Len(runs) : runs[i].src = video[1] /\ runs' = RemoveAt(runs, i)]_vars
    /\ [][video' # video => runs = <<>> /\ runs' = <<>> /\ summary' = NULL]_vars

\* C29 witness: the result of a completed run is on the page with its video
C29_Witness ==
    /\ status = COMPLETE
    /\ summary # NULL
    /\ video # <<>>
    /\ runs = <<>>

(* Properties of the audio remix player *)

\* the sources that are sounding
PlayingSources == { k \in 1..Len(audio.sources) : audio.sources[k] = "playing" }

\* C30: for every interleaving of play/stop clicks, decode completions, the
\* close action and ended callbacks, at most one source is playing, and
\* isPlaying is true exactly when sourceNodeRef holds a source that was
\* started and has neither ended nor been stopped.
C30_OneSourceAndFlagInStep ==
    /\ Cardinality(PlayingSources) <= 1
    /\ audio.isPlaying <=> (audio.sourceNode # 0 /\ audio.sourceNode \in PlayingSources)

\* C30: two sources sound at once: play was clicked twice before the first
\* decode completed
C30_TwoSourcesPlaying == Cardinality(PlayingSources) >= 2

\* C30: a source sounds with the player closed and isPlaying true
C30_PlaysAfterClose ==
    /\ audio.audioData = NULL
    /\ audio.isPlaying
    /\ PlayingSources # {}

\* C30: a source sounds while isPlaying is false and the ref is empty: the
\* ended event of a stopped source came after the next source had started
C30_PlayingUnheld ==
    /\ ~audio.isPlaying
    /\ audio.sourceNode = 0
    /\ PlayingSources # {}

\* C30: what does hold: a source held in the ref is playing
C30_HeldSourceIsPlaying ==
    audio.sourceNode # 0 => audio.sourceNode \in PlayingSources

====
